---------------------------- MODULE Spec2Model ----------------------------
(***************************************************************************)
(* Mars lander: the mechanical simulation functions of src/lander.cpp      *)
(* (acceleration, autopilot, numerical_dynamics, initialize_simulation) as *)
(* a state machine over the program's globals.                             *)
(*                                                                         *)
(* The program computes in double precision.  The model computes in fixed  *)
(* point, every quantity an integer count of a unit:                       *)
(*     length        cm            time          ds (0.1 s)                *)
(*     velocity      cm/ds         acceleration  mm/s^2                    *)
(*     force         cN (0.01 N)   mass          kg                        *)
(*     throttle      1/1000        fuel          1/100                     *)
(*     density       1e-6 kg/m^3   angles        degrees                   *)
(* A vector3d is a triple <<x, y, z>>.  Products that exceed the integer   *)
(* width are taken in stages (MulDiv), each stage rounded to the nearest   *)
(* unit, as a double rounds to the nearest representable value.            *)
(***************************************************************************)
EXTENDS Integers, Sequences, FiniteSets, TLC

(***************************************************************************)
(* Fixed-point arithmetic.  The helpers are functions, so that an argument *)
(* is evaluated once, before the helper is applied to it.                  *)
(***************************************************************************)
Abs[x \in Int] == IF x < 0 THEN -x ELSE x

Sgn[x \in Int] == IF x < 0 THEN -1 ELSE IF x > 0 THEN 1 ELSE 0

\* a / b rounded to the nearest integer, halves away from zero (b > 0).
Round[a \in Int, b \in Int] == Sgn[a] * ((Abs[a] + b \div 2) \div b)

\* a * b / c rounded to the nearest integer for naturals a, b and
\* 0 < c <= 46340, without forming a * b.
MulDivNat[a \in Int, b \in Int, c \in Int] ==
    (a \div c) * b + (a % c) * (b \div c) + ((a % c) * (b % c) + c \div 2) \div c

MulDiv[a \in Int, b \in Int, c \in Int] ==
    Sgn[a] * Sgn[b] * MulDivNat[Abs[a], Abs[b], c]

\* The square root digit by digit: r with the binary digit b set, if its
\* square is still at most n; then the digits below b.
SqrtBits[n \in Int, r \in Int, b \in Int] ==
    IF b = 0 THEN r
    ELSE IF r + b <= 46340 /\ (r + b) * (r + b) <= n
         THEN SqrtBits[n, r + b, b \div 2]
         ELSE SqrtBits[n, r, b \div 2]

\* floor of the square root of a natural below 2^31
ISqrt[n \in Int] == SqrtBits[n, 0, 32768]

(***************************************************************************)
(* vector3d (lander.h): the operators lander.cpp uses.                     *)
(***************************************************************************)
Vector3d == Int \X Int \X Int

VAdd[a \in Vector3d, b \in Vector3d] == <<a[1] + b[1], a[2] + b[2], a[3] + b[3]>>

VSub[a \in Vector3d, b \in Vector3d] == <<a[1] - b[1], a[2] - b[2], a[3] - b[3]>>

VScale[k \in Int, a \in Vector3d] == <<k * a[1], k * a[2], k * a[3]>>

VRound[a \in Vector3d, d \in Int] == <<Round[a[1], d], Round[a[2], d], Round[a[3], d]>>

VMulDiv[a \in Vector3d, k \in Int, d \in Int] ==
    <<MulDiv[a[1], k, d], MulDiv[a[2], k, d], MulDiv[a[3], k, d]>>

Zero3 == <<0, 0, 0>>

Max2[a \in Int, b \in Int] == IF a > b THEN a ELSE b

Max3[v \in Vector3d] == Max2[Max2[Abs[v[1]], Abs[v[2]]], Abs[v[3]]]

\* The magnitude of v whose largest component is m, the components first
\* divided by k so that the sum of squares stays within the integer width.
ReducedAbs[v \in Vector3d, k \in Int] ==
    k * ISqrt[(v[1] \div k) * (v[1] \div k) + (v[2] \div k) * (v[2] \div k)
              + (v[3] \div k) * (v[3] \div k)]

AbsOfMax[v \in Vector3d, m \in Int] ==
    IF Abs[v[1]] + Abs[v[2]] + Abs[v[3]] = m THEN m
    ELSE ReducedAbs[v, IF m < 26754 THEN 1 ELSE IF m < 2675400 THEN 100 ELSE 20000]

\* vector3d::abs(): the magnitude, exact for a vector along one axis.
vabs[v \in Vector3d] == AbsOfMax[v, Max3[v]]

(***************************************************************************)
(* Constants of lander.h, in the model's units.                            *)
(***************************************************************************)
\* MARS_RADIUS 3386000.0 m, in cm
MARS_RADIUS == 338600000

\* GRAVITY * MARS_MASS = 6.673E-11 * 6.42E23 m^3/s^2, divided by 10^5 so that
\* GM_SCALED * 10^4 / r^2 is in mm/s^2 for r in units of 100 m
GM_SCALED == 428406600

\* EXOSPHERE 200000.0 m, in cm
EXOSPHERE == 20000000

\* UNLOADED_LANDER_MASS 100.0 kg
UNLOADED_LANDER_MASS == 100

\* FUEL_CAPACITY 100.0 litres
FUEL_CAPACITY == 100

\* FUEL_DENSITY 1.0 kg/l
FUEL_DENSITY == 1

\* DRAG_COEF_LANDER 1.0
DRAG_COEF_LANDER == 1

\* DRAG_COEF_CHUTE 2.0
DRAG_COEF_CHUTE == 2

\* LANDER_SIZE 1.0 m
LANDER_SIZE == 1

\* parachute_t
NOT_DEPLOYED == "NOT_DEPLOYED"

DEPLOYED == "DEPLOYED"

\* |g| in mm/s^2 at distance r (cm) from the planet's centre:
\* GRAVITY * MARS_MASS / r^2
gravity_at(r) ==
    LET rh == Round[r, 10000]
    IN  Round[MulDiv[GM_SCALED, 10000, rh], rh]

\* MAX_THRUST = 1.5 * (FUEL_DENSITY*FUEL_CAPACITY + UNLOADED_LANDER_MASS)
\*                  * (GRAVITY*MARS_MASS / (MARS_RADIUS*MARS_RADIUS)), in cN
MAX_THRUST ==
    (15 * (FUEL_DENSITY * FUEL_CAPACITY + UNLOADED_LANDER_MASS)
        * gravity_at(MARS_RADIUS)) \div 100

(***************************************************************************)
(* External collaborators of lander.cpp.                                   *)
(***************************************************************************)
\* distance from the planet's centre minus the planet's radius (cm)
Altitude(pos) == vabs[pos] - MARS_RADIUS

\* atmospheric_density(position): the density at the position's altitude,
\* zero above the exosphere, falling with altitude below it (a step table
\* of 0.017 * exp(-altitude / 11 km)).
atmospheric_density(pos) ==
    LET alt == Altitude(pos)
    IN  IF alt > EXOSPHERE THEN 0
        ELSE IF alt > 10000000 THEN 1
        ELSE IF alt > 5000000 THEN 19
        ELSE IF alt > 2000000 THEN 706
        ELSE IF alt > 1000000 THEN 4350
        ELSE IF alt > 500000 THEN 8600
        ELSE IF alt > 100000 THEN 12900
        ELSE 17000

\* The world-frame direction of the lander's thrust axis for an orientation
\* (xyz Euler angles) that is a quarter turn about one axis.
body_up(orient) ==
    CASE orient = <<0, 90, 0>> -> <<1, 0, 0>>
      [] orient = <<0, -90, 0>> -> <<-1, 0, 0>>
      [] orient = <<-90, 0, 0>> -> <<0, 1, 0>>
      [] orient = <<90, 0, 0>> -> <<0, -1, 0>>
      [] orient = <<180, 0, 0>> -> <<0, 0, -1>>
      [] OTHER -> <<0, 0, 1>>

\* thrust_wrt_world(): the thrust vector in the world frame, of magnitude
\* throttle * MAX_THRUST along the lander's thrust axis (cN).
thrust_wrt_world(thr, orient) ==
    VScale[MulDiv[MAX_THRUST, thr, 1000], body_up(orient)]

\* attitude_stabilization(): the orientation whose thrust axis points away
\* from the planet's centre, so that the base points downwards (to the
\* nearest coordinate axis).
attitude_stabilization(pos) ==
    LET m == Max3[pos]
    IN  IF Abs[pos[2]] = m THEN (IF pos[2] < 0 THEN <<90, 0, 0>> ELSE <<-90, 0, 0>>)
        ELSE IF Abs[pos[1]] = m THEN (IF pos[1] < 0 THEN <<0, -90, 0>> ELSE <<0, 90, 0>>)
        ELSE (IF pos[3] < 0 THEN <<180, 0, 0>> ELSE <<0, 0, 0>>)

(***************************************************************************)
(* acceleration(position, velocity), lander.cpp lines 21-40.               *)
(***************************************************************************)
\* a_gravity = -GRAVITY * MARS_MASS * position.norm() / position.abs2()  (mm/s^2)
a_gravity(pos) ==
    LET r == vabs[pos]
        rh == Round[r, 10000]
        g == gravity_at(r)
    IN  <<-MulDiv[g, Round[pos[1], 10000], rh],
          -MulDiv[g, Round[pos[2], 10000], rh],
          -MulDiv[g, Round[pos[3], 10000], rh]>>

\* atmospheric_density(position) * velocity.abs2() * velocity.norm(), the
\* factor the two drag terms share, in units of 0.1 cN
density_v2(pos, vel) ==
    LET k == MulDiv[atmospheric_density(pos), vabs[vel], 1000]
    IN  VMulDiv[vel, k, 1000]

\* self_drag = -0.5 * density * DRAG_COEF_LANDER * (3.1415 * LANDER_SIZE^2)
\*             * velocity.abs2() * velocity.norm()                     (cN)
self_drag(pos, vel) ==
    VMulDiv[VMulDiv[density_v2(pos, vel), 31415, 10000],
            -5 * DRAG_COEF_LANDER * LANDER_SIZE * LANDER_SIZE, 10]

\* para_drag = -0.5 * density * DRAG_COEF_CHUTE * (LANDER_SIZE*2)^2
\*             * velocity.abs2() * velocity.norm() * 5                 (cN)
para_drag(pos, vel) ==
    VMulDiv[density_v2(pos, vel),
            -5 * DRAG_COEF_CHUTE * (LANDER_SIZE * 2) * (LANDER_SIZE * 2) * 5, 10]

\* the drag with the parachute term added whatever the parachute's status
drag_both(pos, vel, chute) ==
    VAdd[self_drag(pos, vel), para_drag(pos, vel)]

\* lines 33-34: the drag for a parachute status
drag(pos, vel, chute) ==
    IF chute = DEPLOYED THEN VAdd[self_drag(pos, vel), para_drag(pos, vel)]
    ELSE IF chute = NOT_DEPLOYED THEN self_drag(pos, vel)
    ELSE Zero3

\* line 36: mass = fuel * FUEL_CAPACITY * FUEL_DENSITY  (kg; fuel in 1/100)
acceleration_mass(fl) == (fl * FUEL_CAPACITY * FUEL_DENSITY) \div 100

\* line 38: a = a_gravity + (thrust + drag) / mass  (mm/s^2), for mass > 0
acceleration(pos, vel, thr, orient, chute, fl) ==
    LET force == VAdd[thrust_wrt_world(thr, orient), drag(pos, vel, chute)]
    IN  VAdd[a_gravity(pos), VMulDiv[force, 10, acceleration_mass(fl)]]

(***************************************************************************)
(* autopilot(), lander.cpp lines 42-93.                                    *)
(***************************************************************************)
\* line 48: force = acceleration.y * (fuel*FUEL_CAPACITY*FUEL_DENSITY
\*                                    + UNLOADED_LANDER_MASS)          (cN)
autopilot_mass(fl) == (fl * FUEL_CAPACITY * FUEL_DENSITY) \div 100 + UNLOADED_LANDER_MASS

autopilot_force(pos, fl) == Round[a_gravity(pos)[2] * autopilot_mass(fl), 10]

\* line 51: alt = abs(position.y) - MARS_RADIUS  (cm)
autopilot_alt(pos) == Abs[pos[2]] - MARS_RADIUS

\* lines 52-53: scaling = (4000 - alt) / 4000, not below 0, as a count of
\* 1/4000
autopilot_scaling(pos) ==
    LET s == 4000 - Round[autopilot_alt(pos), 100]
    IN  IF s < 0 THEN 0 ELSE s

\* force / MAX_THRUST  (1/1000)
full_authority(pos, fl) == Round[autopilot_force(pos, fl) * 1000, MAX_THRUST]

\* line 54: force / MAX_THRUST * scaling
baseline(pos, fl) == MulDiv[full_authority(pos, fl), autopilot_scaling(pos), 4000]

\* the cutoff taken on velocity.y > 0 instead
after_cutoff_ascent(pos, vel, fl) == IF vel[2] > 0 THEN 0 ELSE baseline(pos, fl)

\* lines 55-58: the throttle after the cutoff on velocity.y < 0
after_cutoff(pos, vel, fl) == IF vel[2] < 0 THEN 0 ELSE baseline(pos, fl)

\* the overrides with the fast band keeping the scaled throttle
low_altitude_scaled(pos, vel, fl, thr) ==
    LET t1 == IF vel[2] > 6 /\ vel[2] < 30
              THEN MulDiv[full_authority(pos, fl), 5, 10] ELSE thr
        t2 == IF vel[2] > 30 THEN thr ELSE t1
    IN  IF vel[2] < 6 THEN 0 ELSE t2

\* lines 59-73: the three overrides below 300 m, in the code's order; the
\* velocities 0.6 m/s and 3 m/s are 6 and 30 cm/ds
low_altitude(pos, vel, fl, thr) ==
    LET t1 == IF vel[2] > 6 /\ vel[2] < 30
              THEN MulDiv[full_authority(pos, fl), 5, 10] ELSE thr
        t2 == IF vel[2] > 30 THEN full_authority(pos, fl) ELSE t1
    IN  IF vel[2] < 6 THEN 0 ELSE t2

\* the throttle autopilot() leaves
autopilot(pos, vel, fl) ==
    LET thr == after_cutoff(pos, vel, fl)
    IN  IF autopilot_alt(pos) < 30000 THEN low_altitude(pos, vel, fl, thr) ELSE thr

(***************************************************************************)
(* The program's globals, and what the last operation did.                 *)
(***************************************************************************)
VARIABLES
    scenario,            \* the scenario index the driver selected
    position,            \* cm
    velocity,            \* cm/ds
    orientation,         \* xyz Euler angles, degrees
    delta_t,             \* ds
    parachute_status,
    stabilized_attitude,
    autopilot_enabled,
    simulation_time,     \* ds
    throttle,            \* 1/1000
    fuel,                \* 1/100
    previous,            \* numerical_dynamics' static vector3d previous
    nonfinite,           \* position and velocity are no longer finite numbers
    op,                  \* the last operation: "init", "step", "driver"
    branch,              \* the branch the last numerical_dynamics took
    acc_mass,            \* the mass the last acceleration() divided by
    acc_throttle,        \* the throttle the last acceleration() took its thrust from
    steps,               \* calls of numerical_dynamics so far
    run_steps,           \* calls of numerical_dynamics since the run began
    restarts             \* restarts of the run so far

vars == <<scenario, position, velocity, orientation, delta_t, parachute_status,
          stabilized_attitude, autopilot_enabled, simulation_time, throttle,
          fuel, previous, nonfinite, op, branch, acc_mass, acc_throttle, steps,
          run_steps, restarts>>

\* numerical_dynamics is called at most MaxSteps times
MaxSteps == 3

\* the driver restarts the run at most MaxRestarts times
MaxRestarts == 1

(***************************************************************************)
(* initialize_simulation(), lander.cpp lines 127-230: the values the       *)
(* switch leaves in position, velocity, orientation, delta_t and the three *)
(* booleans, given the scenario and the values they hold at the call.      *)
(***************************************************************************)
Scenarios == 0 .. 9

\* lines 151-215: the cases 0 to 5
scenario_case(s) ==
    CASE s = 0 ->
           [position |-> <<MARS_RADIUS + MARS_RADIUS \div 5, 0, 0>>,
            velocity |-> <<0, -32471, 0>>,
            orientation |-> <<0, 90, 0>>,
            delta_t |-> 1,
            parachute_status |-> NOT_DEPLOYED,
            stabilized_attitude |-> FALSE,
            autopilot_enabled |-> FALSE]
      [] s = 1 ->
           [position |-> <<0, -(MARS_RADIUS + 1000000), 0>>,
            velocity |-> <<0, 0, 0>>,
            orientation |-> <<0, 0, 90>>,
            delta_t |-> 1,
            parachute_status |-> NOT_DEPLOYED,
            stabilized_attitude |-> TRUE,
            autopilot_enabled |-> FALSE]
      [] s = 2 ->
           [position |-> <<0, 0, MARS_RADIUS + MARS_RADIUS \div 5>>,
            velocity |-> <<35000, 0, 0>>,
            orientation |-> <<0, 0, 90>>,
            delta_t |-> 1,
            parachute_status |-> NOT_DEPLOYED,
            stabilized_attitude |-> FALSE,
            autopilot_enabled |-> FALSE]
      [] s = 3 ->
           [position |-> <<0, 0, MARS_RADIUS + (100 * LANDER_SIZE) \div 2>>,
            velocity |-> <<0, 0, 50270>>,
            orientation |-> <<0, 0, 0>>,
            delta_t |-> 1,
            parachute_status |-> NOT_DEPLOYED,
            stabilized_attitude |-> FALSE,
            autopilot_enabled |-> FALSE]
      [] s = 4 ->
           [position |-> <<0, 0, MARS_RADIUS + 10000000>>,
            velocity |-> <<40000, 0, 0>>,
            orientation |-> <<0, 90, 0>>,
            delta_t |-> 1,
            parachute_status |-> NOT_DEPLOYED,
            stabilized_attitude |-> FALSE,
            autopilot_enabled |-> FALSE]
      [] s = 5 ->
           [position |-> <<0, -(MARS_RADIUS + EXOSPHERE), 0>>,
            velocity |-> <<0, 0, 0>>,
            orientation |-> <<0, 0, 90>>,
            delta_t |-> 1,
            parachute_status |-> NOT_DEPLOYED,
            stabilized_attitude |-> TRUE,
            autopilot_enabled |-> FALSE]

\* the switch with the cases 6 to 9 falling into the data of case 5
initialize_simulation_fallthrough(s, cur) ==
    IF s \in 0 .. 5 THEN scenario_case(s) ELSE scenario_case(5)

\* lines 149-229: the switch; the cases 6 to 9 only break
initialize_simulation(s, cur) ==
    IF s \in 0 .. 5 THEN scenario_case(s) ELSE cur

\* The values the caller provides for a scenario index that defines none:
\* the lander on the y axis near the surface, on either side of the planet.
CallerAltitudes == {350000, 20000}

CallerPositions ==
    {<<0, -(MARS_RADIUS + a), 0>> : a \in CallerAltitudes}
        \cup {<<0, MARS_RADIUS + 20000, 0>>}

CallerVelocities == {<<0, vy, 0>> : vy \in {-50, 1, 2, 6, 26, 46}}

CallerDefaults ==
    [position : CallerPositions,
     velocity : CallerVelocities,
     orientation : {<<90, 0, 0>>},
     delta_t : {1, 2},
     parachute_status : {NOT_DEPLOYED},
     stabilized_attitude : {TRUE},
     autopilot_enabled : {TRUE}]

\* the seven globals initialize_simulation writes, as they are now
Current ==
    [position |-> position, velocity |-> velocity, orientation |-> orientation,
     delta_t |-> delta_t, parachute_status |-> parachute_status,
     stabilized_attitude |-> stabilized_attitude,
     autopilot_enabled |-> autopilot_enabled]

\* the bootstrap test passing on the second step as well
bootstrap_branch_late(t) == t <= 1

(***************************************************************************)
(* numerical_dynamics(), lander.cpp lines 95-125.                          *)
(***************************************************************************)
\* line 100: if (simulation_time == 0.0)
bootstrap_branch(t) == t = 0

\* lines 103-105
first_step(pos, vel, acc, dt) ==
    [previous |-> pos,
     position |-> VAdd[VAdd[pos, VScale[dt, vel]], VRound[VScale[dt * dt, acc], 2000]],
     velocity |-> VAdd[vel, VRound[VScale[dt, acc], 1000]]]

\* the steady step with previous overwritten before the velocity is taken
later_step_overwritten(pos, prev, acc, dt) ==
    LET next == VAdd[VSub[VScale[2, pos], prev], VRound[VScale[dt * dt, acc], 1000]]
    IN  [velocity |-> VRound[VSub[next, pos], 2 * dt],
         previous |-> pos,
         position |-> next]

\* lines 111-117
later_step(pos, prev, acc, dt) ==
    LET next == VAdd[VSub[VScale[2, pos], prev], VRound[VScale[dt * dt, acc], 1000]]
    IN  [velocity |-> VRound[VSub[next, prev], 2 * dt],
         previous |-> pos,
         position |-> next]

\* lines 100-118: the integration step on the globals g, given the
\* acceleration acc of line 102 or 110
integrate_with(g, acc) ==
    IF bootstrap_branch(g.simulation_time)
    THEN [g EXCEPT !.branch = "bootstrap",
                   !.previous = first_step(g.position, g.velocity, acc, g.delta_t).previous,
                   !.position = first_step(g.position, g.velocity, acc, g.delta_t).position,
                   !.velocity = first_step(g.position, g.velocity, acc, g.delta_t).velocity]
    ELSE [g EXCEPT !.branch = "steady",
                   !.previous = later_step(g.position, g.previous, acc, g.delta_t).previous,
                   !.position = later_step(g.position, g.previous, acc, g.delta_t).position,
                   !.velocity = later_step(g.position, g.previous, acc, g.delta_t).velocity]

\* lines 100-118 when the mass of line 36 is zero: the quotient of line 38,
\* and with it position and velocity, are no longer finite numbers
integrate_nonfinite(g) ==
    [g EXCEPT !.branch = IF bootstrap_branch(g.simulation_time)
                         THEN "bootstrap" ELSE "steady",
              !.previous = g.position,
              !.nonfinite = TRUE]

\* what the call of acceleration() read: the mass and the throttle
called_acceleration(g) ==
    [g EXCEPT !.acc_mass = acceleration_mass(g.fuel), !.acc_throttle = g.throttle]

integrate(g) ==
    IF acceleration_mass(g.fuel) = 0 THEN integrate_nonfinite(called_acceleration(g))
    ELSE CHOOSE r \in {integrate_with(called_acceleration(g), acc) :
                         acc \in {acceleration(g.position, g.velocity, g.throttle,
                                               g.orientation, g.parachute_status,
                                               g.fuel)}} : TRUE

\* line 121: if (autopilot_enabled) autopilot();
run_autopilot(g) ==
    IF g.autopilot_enabled /\ ~g.nonfinite
    THEN [g EXCEPT !.throttle = autopilot(g.position, g.velocity, g.fuel)]
    ELSE g

\* line 124: if (stabilized_attitude) attitude_stabilization();
run_stabilization(g) ==
    IF g.stabilized_attitude /\ ~g.nonfinite
    THEN [g EXCEPT !.orientation = attitude_stabilization(g.position)]
    ELSE g

\* the step with the autopilot called before the integration
numerical_dynamics_autopilot_first(g) ==
    CHOOSE r \in {run_stabilization(i) :
                    i \in {integrate(a) : a \in {run_autopilot(g)}}} : TRUE

\* lines 95-125 in their order: integrate, then the autopilot, then the
\* stabilization
numerical_dynamics(g) ==
    CHOOSE r \in {run_stabilization(a) :
                    a \in {run_autopilot(i) : i \in {integrate(g)}}} : TRUE

\* The driver's clock: one step advances the simulation time by delta_t.
advance_clock(t, dt) == t + dt

Globals ==
    [position |-> position, velocity |-> velocity, orientation |-> orientation,
     delta_t |-> delta_t, parachute_status |-> parachute_status,
     stabilized_attitude |-> stabilized_attitude,
     autopilot_enabled |-> autopilot_enabled,
     simulation_time |-> simulation_time, throttle |-> throttle, fuel |-> fuel,
     previous |-> previous, nonfinite |-> nonfinite, branch |-> branch,
     acc_mass |-> acc_mass, acc_throttle |-> acc_throttle]

(***************************************************************************)
(* The state machine.                                                      *)
(***************************************************************************)
\* The program at its start: the driver has selected a scenario and called
\* initialize_simulation on the caller's defaults; no step was taken.
Init ==
    \E s \in Scenarios, c \in CallerDefaults :
        LET i == initialize_simulation(s, c)
        IN  /\ scenario = s
            /\ position = i.position
            /\ velocity = i.velocity
            /\ orientation = i.orientation
            /\ delta_t = i.delta_t
            /\ parachute_status = i.parachute_status
            /\ stabilized_attitude = i.stabilized_attitude
            /\ autopilot_enabled = i.autopilot_enabled
            /\ simulation_time = 0
            /\ throttle = 0
            /\ fuel = 100
            /\ previous = Zero3
            /\ nonfinite = FALSE
            /\ op = "init"
            /\ branch = "none"
            /\ acc_mass = 0
            /\ acc_throttle = 0
            /\ steps = 0
            /\ run_steps = 0
            /\ restarts = 0

\* One step(): numerical_dynamics, then the clock.
Step ==
    /\ steps < MaxSteps
    /\ ~nonfinite
    /\ \E g \in {numerical_dynamics(Globals)} :
           /\ position' = g.position
           /\ velocity' = g.velocity
           /\ orientation' = g.orientation
           /\ throttle' = g.throttle
           /\ previous' = g.previous
           /\ nonfinite' = g.nonfinite
           /\ branch' = g.branch
           /\ acc_mass' = g.acc_mass
           /\ acc_throttle' = g.acc_throttle
    /\ simulation_time' = advance_clock(simulation_time, delta_t)
    /\ op' = "step"
    /\ steps' = steps + 1
    /\ run_steps' = run_steps + 1
    /\ UNCHANGED <<scenario, delta_t, parachute_status, stabilized_attitude,
                   autopilot_enabled, fuel, restarts>>

\* The driver restarts the run with scenario s: the clock returns to 0 and
\* initialize_simulation runs; previous keeps what the last run left in it.
Restart(s) ==
    LET i == initialize_simulation(s, Current)
    IN  /\ restarts < MaxRestarts
        /\ restarts' = restarts + 1
        /\ scenario' = s
        /\ position' = i.position
        /\ velocity' = i.velocity
        /\ orientation' = i.orientation
        /\ delta_t' = i.delta_t
        /\ parachute_status' = i.parachute_status
        /\ stabilized_attitude' = i.stabilized_attitude
        /\ autopilot_enabled' = i.autopilot_enabled
        /\ simulation_time' = 0
        /\ throttle' = 0
        /\ nonfinite' = (nonfinite /\ s \notin 0 .. 5)
        /\ op' = "init"
        /\ run_steps' = 0
        /\ UNCHANGED <<fuel, previous, branch, acc_mass, acc_throttle, steps>>

\* The driver switches the autopilot on or off between two steps.
ToggleAutopilot ==
    /\ autopilot_enabled' = ~autopilot_enabled
    /\ op' = "driver"
    /\ UNCHANGED <<scenario, position, velocity, orientation, delta_t,
                   parachute_status, stabilized_attitude, simulation_time,
                   throttle, fuel, previous, nonfinite, branch, acc_mass,
                   acc_throttle, steps, run_steps, restarts>>

\* The parachute is deployed between two steps.
DeployParachute ==
    /\ parachute_status = NOT_DEPLOYED
    /\ vabs[velocity] <= 5000
    /\ parachute_status' = DEPLOYED
    /\ op' = "driver"
    /\ UNCHANGED <<scenario, position, velocity, orientation, delta_t,
                   stabilized_attitude, autopilot_enabled, simulation_time,
                   throttle, fuel, previous, nonfinite, branch, acc_mass,
                   acc_throttle, steps, run_steps, restarts>>

\* The fuel collaborator: the tank drains while the engine burns.
FuelLevels == {0, 50, 100}

ConsumeFuel ==
    /\ throttle > 0
    /\ \E f \in FuelLevels :
        /\ f < fuel
        /\ fuel' = f
    /\ op' = "driver"
    /\ UNCHANGED <<scenario, position, velocity, orientation, delta_t,
                   parachute_status, stabilized_attitude, autopilot_enabled,
                   simulation_time, throttle, previous, nonfinite, branch,
                   acc_mass, acc_throttle, steps, run_steps, restarts>>

Next ==
    \/ Step
    \/ \E s \in Scenarios : Restart(s)
    \/ ToggleAutopilot
    \/ DeployParachute
    \/ ConsumeFuel

Spec == Init /\ [][Next]_vars

(***************************************************************************)
(* The properties.                                                         *)
(***************************************************************************)
\* a step just ran the autopilot on finite values
AutopilotActed == op = "step" /\ autopilot_enabled /\ ~nonfinite

\* C1: after a step on which the autopilot ran, the throttle lies in the
\* closed interval [0, 1] (0 to 1000 thousandths), whatever the state before.
C1_ThrottleInRange ==
    AutopilotActed => (0 <= throttle /\ throttle <= 1000)

C3_BootstrapOnlyFirst ==
    run_steps >= 1 => (branch = "bootstrap" <=> run_steps = 1)

\* a later step of a run that followed a restart, taken on the steady branch
C3_Witness ==
    /\ op = "step"
    /\ restarts >= 1
    /\ run_steps >= 2
    /\ branch = "steady"

\* C4: acceleration() never divides by a mass that is zero or negative.
C4_MassGuarded ==
    op = "step" => acc_mass > 0

\* C5: the mass acceleration() divides by is the unloaded lander mass plus
\* the fuel fraction times the capacity times the density.
C5_MassIsTotalMass ==
    op = "step" =>
        acc_mass = UNLOADED_LANDER_MASS
                     + (fuel * FUEL_CAPACITY * FUEL_DENSITY) \div 100

\* C6: with the parachute NOT_DEPLOYED the drag is the skin drag alone; where
\* the skin drag is not zero the drag with the parachute DEPLOYED is strictly
\* greater in magnitude; where the density or the velocity is zero both
\* drags are zero.
C6_ParachuteMonotone ==
    ~nonfinite =>
        /\ drag(position, velocity, NOT_DEPLOYED) = self_drag(position, velocity)
        /\ self_drag(position, velocity) # Zero3
             => vabs[drag(position, velocity, DEPLOYED)]
                  > vabs[drag(position, velocity, NOT_DEPLOYED)]
        /\ (atmospheric_density(position) = 0 \/ velocity = Zero3)
             => /\ drag(position, velocity, DEPLOYED) = Zero3
                /\ drag(position, velocity, NOT_DEPLOYED) = Zero3

\* a step taken with the parachute deployed, in air, at a velocity that
\* gives a skin drag
C6_Witness ==
    /\ op = "step"
    /\ ~nonfinite
    /\ parachute_status = DEPLOYED
    /\ self_drag(position, velocity) # Zero3
    /\ para_drag(position, velocity) # Zero3

\* the statement of C6 as the specification words it: strictly greater at
\* every position and velocity
C6_ParachuteStrictlyMore ==
    ~nonfinite =>
        /\ drag(position, velocity, NOT_DEPLOYED) = self_drag(position, velocity)
        /\ vabs[drag(position, velocity, DEPLOYED)]
             > vabs[drag(position, velocity, NOT_DEPLOYED)]

\* C7: a restart with scenario 6, 7, 8 or 9 leaves position, velocity,
\* orientation, delta_t, the parachute status and the two autopilot flags
\* as they were before the call.
C7_EmptyScenariosKeepState ==
    [][(restarts' = restarts + 1 /\ scenario' \in 6 .. 9)
         => /\ position' = position
            /\ velocity' = velocity
            /\ orientation' = orientation
            /\ delta_t' = delta_t
            /\ parachute_status' = parachute_status
            /\ stabilized_attitude' = stabilized_attitude
            /\ autopilot_enabled' = autopilot_enabled]_vars

\* a restart with an empty scenario, after a run that stepped and left
\* values no scenario of the table defines
C7_Witness ==
    /\ op = "init"
    /\ restarts >= 1
    /\ scenario \in 6 .. 9
    /\ steps >= 1
    /\ \A k \in 0 .. 5 : position # scenario_case(k).position

\* C8: below 300 m of altitude, a vertical velocity above 3 m/s gives the
\* throttle force / MAX_THRUST without the altitude scaling, one strictly
\* between 0.6 m/s and 3 m/s gives half of force / MAX_THRUST, one below
\* 0.6 m/s gives 0, and one of exactly 0.6 m/s or 3 m/s keeps the scaled
\* baseline.
C8_LowAltitudeOverride ==
    (AutopilotActed /\ Altitude(position) < 30000) =>
        /\ velocity[2] > 30 => throttle = full_authority(position, fuel)
        /\ (velocity[2] > 6 /\ velocity[2] < 30)
             => throttle = MulDiv[full_authority(position, fuel), 5, 10]
        /\ velocity[2] < 6 => throttle = 0
        /\ velocity[2] \in {6, 30} => throttle = baseline(position, fuel)

\* below 300 m at more than 3 m/s, where the scaling makes the two
\* candidate throttles differ
C8_Witness ==
    /\ AutopilotActed
    /\ Altitude(position) < 30000
    /\ velocity[2] > 30
    /\ full_authority(position, fuel) # baseline(position, fuel)
    /\ throttle = full_authority(position, fuel)

\* the statement of C8 as the specification words it: the scaled baseline
\* at 3 m/s and above, half of it between 0.6 m/s and 3 m/s, 0 below
C8_BandsOfTheBaseline ==
    (AutopilotActed /\ Altitude(position) < 30000) =>
        /\ velocity[2] >= 30 => throttle = baseline(position, fuel)
        /\ (velocity[2] > 6 /\ velocity[2] < 30)
             => throttle = MulDiv[baseline(position, fuel), 5, 10]
        /\ velocity[2] < 6 => throttle = 0

\* the position and the velocity a step leaves when acceleration() is given
\* the throttle thr
StepMotion(thr) ==
    LET acc == acceleration(position, velocity, thr, orientation,
                            parachute_status, fuel)
    IN  IF bootstrap_branch(simulation_time)
        THEN <<first_step(position, velocity, acc, delta_t).position,
               first_step(position, velocity, acc, delta_t).velocity>>
        ELSE <<later_step(position, previous, acc, delta_t).position,
               later_step(position, previous, acc, delta_t).velocity>>

\* C9: a step gives acceleration() the throttle that was set before the
\* step, and moves the lander by it; the autopilot then sets the throttle
\* from the position and the velocity the step produced, and when the
\* autopilot is off the throttle stays as it was.
C9_ControlLag ==
    [][steps' = steps + 1
         => /\ acc_throttle' = throttle
            /\ ~nonfinite' => <<position', velocity'>> = StepMotion(throttle)
            /\ (autopilot_enabled /\ ~nonfinite')
                 => throttle' = autopilot(position', velocity', fuel)
            /\ ~autopilot_enabled => throttle' = throttle]_vars

\* a step that burned the throttle of the step before it and left another
C9_Witness ==
    /\ AutopilotActed
    /\ run_steps >= 2
    /\ acc_throttle > 0
    /\ throttle # acc_throttle

\* C10: a step leaves in previous the position it started from; on the
\* steady branch the new position is 2 * position - previous + a * dt^2 and
\* the new velocity is (new position - previous) / (2 * dt), previous being
\* the value before the step; this holds in a run that follows a restart.
C10_HistoryInvariant ==
    [][steps' = steps + 1
         => /\ previous' = position
            /\ (branch' = "steady" /\ ~nonfinite')
                 => LET acc == acceleration(position, velocity, throttle,
                                            orientation, parachute_status, fuel)
                    IN  /\ position' =
                             VAdd[VSub[VScale[2, position], previous],
                                  VRound[VScale[delta_t * delta_t, acc], 1000]]
                        /\ velocity' =
                             VRound[VSub[position', previous], 2 * delta_t]]_vars

\* the second step of a run that followed a restart of a run that stepped
C10_Witness ==
    /\ op = "step"
    /\ ~nonfinite
    /\ restarts >= 1
    /\ run_steps = 2
    /\ steps >= 3
    /\ branch = "steady"
    /\ previous # position

=============================================================================
